---- MODULE Spec2Model ----
(***************************************************************************)
(* AirFQ flight-unit acquisition scripts: src/flight-unit/airspeed.py,     *)
(* src/flight-unit/logger.py and src/flight-unit/main.py; the wind-plot    *)
(* HTTP API of src/model-fusion/api.py and src/model-fusion/main.py.       *)
(*                                                                         *)
(* Number representation.  The scripts compute with Python floats; the     *)
(* model computes with fixed-point integers:                               *)
(*   pressures      in 1/100 Pa   (centi-pascal),                          *)
(*   airspeeds      in 1/100 m/s  (cm/s),                                  *)
(*   temperatures   in 1/100 degC,                                         *)
(*   GPS altitude   in 1/100 m,                                            *)
(*   lat / lon      in 1/1000000 degree,                                   *)
(*   times          in ms.                                                 *)
(* A Python value that may be None is Some(v) = <<v>> or None = <<>>.      *)
(* A text field of a CSV row is a string; a row is a tuple of fields; a    *)
(* file is the tuple of its rows.                                          *)
(***************************************************************************)
EXTENDS Integers, Sequences, FiniteSets, TLC

VARIABLES
    script,                \* which script this process runs
    pc,                    \* position of the script's single thread
    calibration_readings,  \* accumulator of the calibration loop
    calibrated,
    zero_offset,
    samples_ok,            \* history: calibration reads that returned a 4-byte frame
    pitot_data,            \* last frame returned by i2c.readfrom (data in airspeed.py)
    pitot_pa,
    pressure_diff,         \* pressure_diff (logger.py), pressure_diff_pa (airspeed.py)
    airspeed,
    pitot_err,             \* the except clause of the pitot read ran in this tick
    temp_c,
    my_gps,                \* latest fix held by the MicropyGPS object
    gps_sentence,          \* TRUE while the MicropyGPS object holds a partly received sentence
    gps_rx,                \* bytes waiting in the GPS UART receive buffer
    clock,                 \* value ticks_ms() returns
    boot_ticks,            \* history: value ticks_ms() returned when the script started
    last_save,
    csv_file,
    printed,               \* last reading line written to the console
    arg,                   \* unit harness: input of a pure function
    result,                \* unit harness: what the function returned or raised
    temp_dir,              \* wind plot: the TemporaryDirectory exists on disk
    plot_file,             \* wind plot: the PNG exists in the temporary directory
    uploaded,              \* wind plot: the PNG has been stored in the S3 bucket
    plot_outcome,          \* wind plot: how the body of the with statement ended
    threads,               \* relay: the publish threads started, in order of their requests
    channel,               \* relay: the messages sent to the websocket channel, in order
    responses,             \* relay: the responses of the /publish requests, in order
    generators,            \* the FlightDataGenerator objects of each connection of the simulator
    calls,                 \* how many times generate_data was called on each of them
    message,               \* the dict the latest generate_data call returned
    conn,                  \* each connection of the simulator: "none", "open", "closing" (the client has gone), "closed"
    turn,                  \* the generator each connection handler sends for next
    sent,                  \* the flight ids of the messages sent on each connection, in order
    task,                  \* send_hi_periodically of the snap tester: "none", "connect", "send", "sleep", "ended", "cancelled"
    main_loop,             \* main() of the snap tester: "none", "looping", "terminated"
    seconds,               \* seconds since the snap tester started
    wake_at,               \* when the asyncio.sleep(2) of the task is over
    hi_sent,               \* the times at which "hi" was sent
    connects,              \* how many times websockets.connect was called
    interrupted            \* the program was interrupted from outside

vars == <<script, pc, calibration_readings, calibrated, zero_offset, samples_ok,
          pitot_data, pitot_pa, pressure_diff, airspeed, pitot_err, temp_c,
          my_gps, gps_sentence, gps_rx, clock, boot_ticks, last_save, csv_file, printed, arg, result,
          temp_dir, plot_file, uploaded, plot_outcome,
          threads, channel, responses,
          generators, calls, message, conn, turn, sent,
          task, main_loop, seconds, wake_at, hi_sent, connects, interrupted>>

calVars  == <<calibration_readings, calibrated, zero_offset>>
unitVars == <<arg, result>>
plotVars == <<temp_dir, plot_file, uploaded, plot_outcome>>
relayVars == <<threads, channel, responses>>
simVars == <<generators, calls, message, conn, turn, sent>>
snapVars == <<task, main_loop, seconds, wake_at, hi_sent, connects, interrupted>>

\* the state of the programs other than the flight-unit scripts
serviceVars == <<plotVars, relayVars, simVars, snapVars>>

\* the variables of the flight-unit scripts other than script and pc
deviceVars ==
    <<calVars, samples_ok, pitot_data, pitot_pa, pressure_diff, airspeed,
      pitot_err, temp_c, my_gps, gps_sentence, gps_rx, clock, boot_ticks, last_save, csv_file, printed>>

\* what a step of one program leaves alone: the state of all the others
plotFrame == <<script, deviceVars, relayVars, simVars, snapVars>>
relayFrame == <<script, pc, deviceVars, unitVars, plotVars, simVars, snapVars>>
simFrame == <<script, pc, deviceVars, unitVars, plotVars, relayVars, snapVars>>
snapFrame == <<script, pc, deviceVars, unitVars, plotVars, relayVars, simVars>>

----------------------------------------------------------------------------
(* Optional values and arithmetic helpers *)

None == <<>>
Some(v) == <<v>>
Val(o) == o[1]

Abs(n) == IF n < 0 THEN -n ELSE n

\* floor(a * b / c) for a >= 0 without leaving 32-bit integers
MulDiv(a, b, c) == a * (b \div c) + (a * (b % c)) \div c

RECURSIVE SqrtBisect(_, _, _)
SqrtBisect(n, lo, hi) ==
    IF lo >= hi THEN lo
    ELSE LET mid == (lo + hi + 1) \div 2
         IN  IF mid * mid <= n THEN SqrtBisect(n, mid, hi)
                               ELSE SqrtBisect(n, lo, mid - 1)

\* math.sqrt on a non-negative fixed-point value: floor of the square root
sqrt(n) == SqrtBisect(n, 0, 46340)

RECURSIVE SumSeq(_)
SumSeq(s) == IF s = <<>> THEN 0 ELSE Head(s) + SumSeq(Tail(s))

\* sum(readings) / len(readings)
Mean(s) == SumSeq(s) \div Len(s)

----------------------------------------------------------------------------
(* Bounds and input samples *)

MaxClockSteps == 3     \* ticks_ms() advances at most this many half-intervals
MaxRx == 1             \* GPS bytes that can wait in the UART buffer

\* frames the sensor bus can hand back: one of the wrong length, two valid
FrameShort == <<32, 0, 0>>
FrameRest  == <<6, 102, 1, 2>>      \* raw pressure 1638
FrameFlow  == <<32, 0, 0, 0>>       \* raw pressure 8192
Frames == {FrameShort, FrameRest, FrameFlow}

AdcSamples == {14000}

NoFix ==
    [timestamp |-> None,
     latitude  |-> [val |-> None, dir |-> "N"],
     longitude |-> [val |-> None, dir |-> "W"],
     altitude  |-> None,
     satellites_in_use |-> None]
FixTimeOnly ==
    [timestamp |-> Some(<<12, 5, 9>>),
     latitude  |-> [val |-> None, dir |-> "N"],
     longitude |-> [val |-> None, dir |-> "W"],
     altitude  |-> None,
     satellites_in_use |-> Some(0)]
FixFull ==
    [timestamp |-> Some(<<12, 5, 10>>),
     latitude  |-> [val |-> Some(34500000), dir |-> "S"],
     longitude |-> [val |-> Some(-118250000), dir |-> "W"],
     altitude  |-> Some(13411),
     satellites_in_use |-> Some(7)]
GpsFixes == {FixTimeOnly, FixFull}

----------------------------------------------------------------------------
(* Pure functions of the scripts *)

calibration_count == 5

\* airspeed.py: parse_pressure_diff(data)
parse_pressure_diff(data) ==
    IF Len(data) # 4 THEN 0
    ELSE LET raw == data[1] * 256 + data[2]
             lo  == IF raw < 1638 THEN 1638 ELSE raw
             hi  == IF lo > 14745 THEN 14745 ELSE lo
         IN  MulDiv(hi - 1638, 689476, 14745 - 1638)

\* variant of parse_pitot_data that reads the byte pairs low byte first
parse_pitot_data_little_endian(data) ==
    IF Len(data) # 4 THEN <<None, None>>
    ELSE <<Some(data[2] * 256 + data[1]), Some(data[4] * 256 + data[3])>>

\* logger.py: parse_pitot_data(data) -> (pressure_raw, temp_raw)
parse_pitot_data(data) ==
    IF Len(data) # 4 THEN <<None, None>>
    ELSE <<Some(data[1] * 256 + data[2]), Some(data[3] * 256 + data[4])>>

\* main.py: parse_pitot_data(data)
parse_pitot_data_main(data) ==
    IF Len(data) # 4 THEN <<None, None>>
    ELSE <<Some(data[1] * 256 + data[2]), Some(data[3] * 256 + data[4])>>

\* variant of raw_to_pressure_pa without the upper clamp
raw_to_pressure_pa_unclamped_above(pressure_raw) ==
    LET lo == IF pressure_raw < 1638 THEN 1638 ELSE pressure_raw
    IN  MulDiv(lo - 1638, 689476, 14745 - 1638)

\* logger.py: raw_to_pressure_pa(pressure_raw)
raw_to_pressure_pa(pressure_raw) ==
    LET lo == IF pressure_raw < 1638 THEN 1638 ELSE pressure_raw
        hi == IF lo > 14745 THEN 14745 ELSE lo
    IN  MulDiv(hi - 1638, 689476, 14745 - 1638)

\* main.py: raw_to_pressure_pa(pressure_raw)
raw_to_pressure_pa_main(pressure_raw) ==
    LET lo == IF pressure_raw < 1638 THEN 1638 ELSE pressure_raw
        hi == IF lo > 14745 THEN 14745 ELSE lo
    IN  MulDiv(hi - 1638, 689476, 14745 - 1638)

\* v = sqrt(2 * dp / rho), rho = 1.225: v_cm^2 = dp_centiPa * 8000 / 49
SqrtTwoDpOverRho(dp) == sqrt(MulDiv(dp, 8000, 49))

\* A call either returns a value or raises
Return(v) == [raised |-> FALSE, value |-> <<v>>]
Raised == [raised |-> TRUE, value |-> <<>>]
Value(r) == r.value[1]

\* airspeed.py: airspeed_from_pressure_diff(pressure_diff_pa, rho=1.225)
airspeed_from_pressure_diff(pressure_diff_pa) ==
    IF pressure_diff_pa = None \/ Val(pressure_diff_pa) < 0
    THEN Return(0)
    ELSE Return(SqrtTwoDpOverRho(Val(pressure_diff_pa)))

\* logger.py: airspeed_from_pressures(pressure_diff_pa)
airspeed_from_pressures(pressure_diff_pa) ==
    IF pressure_diff_pa = None \/ Val(pressure_diff_pa) < 0
    THEN Return(0)
    ELSE Return(SqrtTwoDpOverRho(Val(pressure_diff_pa)))

\* main.py: STATIC_PRESSURE_PA = pressure_at_elevation(ELEVATION_M), 99724.26 Pa
STATIC_PRESSURE_PA == 9972426

\* variant that takes the pitot pressure for the differential pressure
airspeed_from_pressures_main_without_static(pitot, static) ==
    IF pitot = None \/ static = None
    THEN Raised
    ELSE Return(SqrtTwoDpOverRho(IF Val(pitot) < 0 THEN 0 ELSE Val(pitot)))

\* main.py: airspeed_from_pressures(pitot_pa, static_pa); None - float raises
airspeed_from_pressures_main(pitot, static) ==
    IF pitot = None \/ static = None
    THEN Raised   \* TypeError
    ELSE LET dp == Val(pitot) - Val(static)
         IN  Return(SqrtTwoDpOverRho(IF dp < 0 THEN 0 ELSE dp))

\* a / b rounded to the nearest integer, b > 0
DivNearest(a, b) == (2 * a + b) \div (2 * b)

\* read_onboard_temp_c(): 27 - (reading * 3.3 / 65535 - 0.706) / 0.001721
read_onboard_temp_c(reading) ==
    LET microvolt == MulDiv(reading, 3300000, 65535)
    IN  2700 - DivNearest((microvolt - 706000) * 100, 1721)

\* time.ticks_diff(a, b) of MicroPython: signed difference modulo the period
TICKS_PERIOD == 1073741824
ticks_diff(a, b) ==
    ((a - b + TICKS_PERIOD \div 2) % TICKS_PERIOD) - TICKS_PERIOD \div 2

----------------------------------------------------------------------------
(* Text formatting *)

Pad2(n) == IF n < 10 THEN "0" \o ToString(n) ELSE ToString(n)

RECURSIVE PadTo(_, _)
\* decimal digits of n, left-padded with zeros to w digits
PadTo(n, w) ==
    IF w <= 1 THEN ToString(n)
    ELSE PadTo(n \div 10, w - 1) \o ToString(n % 10)

\* "{:.2f}".format(v), v in hundredths
Fmt2f(v) ==
    (IF v < 0 THEN "-" ELSE "") \o ToString(Abs(v) \div 100) \o "." \o PadTo(Abs(v) % 100, 2)

\* "{:.8f}".format(v), v in millionths
Fmt8f(v) ==
    (IF v < 0 THEN "-" ELSE "") \o ToString(Abs(v) \div 1000000) \o "."
        \o PadTo(Abs(v) % 1000000, 6) \o "00"

\* "{:.2f}".format(x) if x is not None else ""
Csv2f(x) == IF x = None THEN "" ELSE Fmt2f(Val(x))

\* gps_time = "{:02}:{:02}:{:02}".format(*my_gps.timestamp) or "??:??:??"
GpsTime(gps) ==
    IF gps.timestamp = None THEN "??:??:??"
    ELSE LET t == Val(gps.timestamp)
         IN  Pad2(t[1]) \o ":" \o Pad2(t[2]) \o ":" \o Pad2(t[3])

HasPosition(gps) == gps.latitude.val # None /\ gps.longitude.val # None

\* variant that writes the coordinate with the sign it arrived with
SignedCoordAsReceived(c, negDir, posDir) == Val(c.val)

\* sign made consistent with the hemisphere letter
SignedCoord(c, negDir, posDir) ==
    LET v  == Val(c.val)
        v1 == IF c.dir = negDir /\ v > 0 THEN -v ELSE v
    IN  IF c.dir = posDir /\ v1 < 0 THEN -v1 ELSE v1

LatCsv(gps) ==
    IF HasPosition(gps) THEN Fmt8f(SignedCoord(gps.latitude, "S", "N")) ELSE ""
LonCsv(gps) ==
    IF HasPosition(gps) THEN Fmt8f(SignedCoord(gps.longitude, "W", "E")) ELSE ""
ElevationCsv(gps) == Csv2f(gps.altitude)
NumSatsCsv(gps) ==
    IF gps.satellites_in_use = None THEN "" ELSE ToString(Val(gps.satellites_in_use))

----------------------------------------------------------------------------
(* CSV rows and console lines *)

HeaderLogger ==
    <<"time", "timestamp_ms", "latitude", "longitude", "elevation", "airspeed",
      "pressure_diff", "temp", "satellites">>
HeaderMain ==
    <<"time", "latitude", "longitude", "elevation", "airspeed", "temp", "satellites">>

\* variant of csv_line built with the seven-column format of main.py
CsvLineLoggerSevenColumns(gps, now, asp, pd, temp) ==
    <<GpsTime(gps), LatCsv(gps), LonCsv(gps), ElevationCsv(gps),
      Csv2f(asp), Csv2f(temp), NumSatsCsv(gps)>>

\* logger.py: csv_line
CsvLineLogger(gps, now, asp, pd, temp) ==
    <<GpsTime(gps), ToString(now), LatCsv(gps), LonCsv(gps), ElevationCsv(gps),
      Csv2f(asp), Csv2f(pd), Csv2f(temp), NumSatsCsv(gps)>>

\* main.py: csv_line
CsvLineMain(gps, asp, temp) ==
    <<GpsTime(gps), LatCsv(gps), LonCsv(gps), ElevationCsv(gps),
      Csv2f(asp), Csv2f(temp), NumSatsCsv(gps)>>

\* main.py: the line printed every tick
PrintLineMain(gps, asp, temp) ==
    <<GpsTime(gps),
      IF HasPosition(gps)
        THEN Fmt8f(Abs(SignedCoord(gps.latitude, "S", "N"))) \o " " \o gps.latitude.dir
        ELSE "N/A",
      IF HasPosition(gps)
        THEN Fmt8f(Abs(SignedCoord(gps.longitude, "W", "E"))) \o " " \o gps.longitude.dir
        ELSE "N/A",
      IF gps.altitude = None THEN "N/A" ELSE Fmt2f(Val(gps.altitude)) \o " m",
      IF asp = None THEN "N/A" ELSE Fmt2f(Val(asp)) \o " m/s",
      IF temp = None THEN "N/A" ELSE Fmt2f(Val(temp)) \o " C",
      IF gps.satellites_in_use = None THEN "N/A"
        ELSE ToString(Val(gps.satellites_in_use))>>

\* airspeed.py: print("Airspeed: {:.2f} m/s".format(airspeed))
PrintLineAirspeed(asp) ==
    IF asp = None THEN "Airspeed: 0" ELSE "Airspeed: " \o Fmt2f(Val(asp)) \o " m/s"

NoFile == [exists |-> FALSE, rows |-> <<>>]
OldRowLogger == CsvLineLogger(FixTimeOnly, 4200, None, None, Some(2511))
OldRowMain == CsvLineMain(FixTimeOnly, None, Some(2511))

\* what /sd holds when the script starts
InitialFiles(s) ==
    IF s = "logger" THEN {NoFile, [exists |-> TRUE, rows |-> <<HeaderLogger, OldRowLogger>>]}
    ELSE IF s = "main" THEN {NoFile, [exists |-> TRUE, rows |-> <<HeaderMain, OldRowMain>>]}
    ELSE {NoFile}

\* save period of the script and the clock granularity of the model
SaveInterval == IF script = "logger" THEN 200 ELSE 1000
ClockStep == SaveInterval \div 2
MaxClock == MaxClockSteps * ClockStep

\* logger.py: sleep_ms(100) at the end of every iteration of the calibration loop
CalibrationSleep == 100

\* the least time the calibration loop takes: one sleep per sample
CalibrationTime == IF script = "logger" THEN calibration_count * CalibrationSleep ELSE 0

\* ticks_ms() after a further dt ms: the counter wraps at TICKS_PERIOD
TicksAfter(t, dt) == (t + dt) % TICKS_PERIOD

\* ms the script has been running when ticks_ms() returns now
Uptime(now) == ticks_diff(now, boot_ticks)

\* ticks_ms() after the sleep of a calibration iteration; the model stops
\* counting calibration time once CalibrationTime has passed
ClockAfterCalibrationSleep ==
    IF Uptime(clock) < CalibrationTime THEN TicksAfter(clock, CalibrationSleep) ELSE clock

----------------------------------------------------------------------------
(* Programs that are not running *)

\* no call of generate_and_upload_wind_plot is in progress
PlotIdle ==
    /\ temp_dir = FALSE
    /\ plot_file = FALSE
    /\ uploaded = FALSE
    /\ plot_outcome = "none"

\* no /publish request has been received
RelayIdle ==
    /\ threads = <<>>
    /\ channel = <<>>
    /\ responses = <<>>

\* the simulator has no connection and no generator
SimIdle ==
    /\ generators = <<>>
    /\ calls = <<>>
    /\ message = <<>>
    /\ conn = <<>>
    /\ turn = <<>>
    /\ sent = <<>>

\* the snap tester is not running
SnapIdle ==
    /\ task = "none"
    /\ main_loop = "none"
    /\ seconds = 0
    /\ wake_at = 0
    /\ hi_sent = <<>>
    /\ connects = 0
    /\ interrupted = FALSE

ServicesIdle ==
    /\ PlotIdle
    /\ RelayIdle
    /\ SimIdle
    /\ SnapIdle

\* no flight-unit script is running
FlightIdle ==
    /\ calibration_readings = <<>>
    /\ calibrated = FALSE
    /\ zero_offset = 0
    /\ samples_ok = 0
    /\ pitot_data = None
    /\ pitot_pa = None
    /\ pressure_diff = None
    /\ airspeed = None
    /\ pitot_err = FALSE
    /\ temp_c = None
    /\ my_gps = NoFix
    /\ gps_sentence = FALSE
    /\ gps_rx = 0
    /\ clock = 0
    /\ boot_ticks = 0
    /\ last_save = 0
    /\ csv_file = NoFile
    /\ printed = None

----------------------------------------------------------------------------
(* Initial state: the interpreter is about to run the script's top level *)

\* the state in which ticks_ms() returns t when the script starts
StartAt(t) ==
    /\ script \in {"airspeed", "logger", "main"}
    /\ pc = IF script = "airspeed" THEN "calibrating" ELSE "boot"
    /\ calibration_readings = <<>>
    /\ calibrated = FALSE
    /\ zero_offset = 0
    /\ samples_ok = 0
    /\ pitot_data = None
    /\ pitot_pa = None
    /\ pressure_diff = None
    /\ airspeed = None
    /\ pitot_err = FALSE
    /\ temp_c = None
    /\ my_gps = NoFix
    /\ gps_sentence = FALSE
    /\ gps_rx = 0
    /\ clock = t
    /\ boot_ticks = t
    /\ last_save = 0
    /\ csv_file \in InitialFiles(script)
    /\ printed = None
    /\ arg = None
    /\ result = None
    /\ ServicesIdle

Init == StartAt(0)

\* ticks_ms() counts from an arbitrary reference point: here the script starts
\* less than a second before the counter wraps
InitNearWrap == StartAt(TICKS_PERIOD - 7 * CalibrationSleep)

----------------------------------------------------------------------------
(* Start-up of logger.py and main.py *)

\* variant that opens the file for writing whether or not it exists
FileAfterHeaderAlwaysWritten(file, header) == [exists |-> TRUE, rows |-> <<header>>]

\* try: uos.stat(path) except OSError: with open(path, "w") as f: f.write(csv_header)
\* uos.stat raises exactly when the file is absent
FileAfterHeaderCheck(file, header) ==
    IF file.exists THEN file ELSE [exists |-> TRUE, rows |-> <<header>>]

\* last_save = ticks_ms(); the header is written if uos.stat raises OSError
Boot ==
    /\ script \in {"logger", "main"}
    /\ pc = "boot"
    /\ last_save' = clock
    /\ csv_file' = FileAfterHeaderCheck(csv_file,
                        IF script = "logger" THEN HeaderLogger ELSE HeaderMain)
    /\ pc' = IF script = "logger" THEN "calibrating" ELSE "gps"
    /\ UNCHANGED <<script, calVars, samples_ok, pitot_data, pitot_pa, pressure_diff,
                   airspeed, pitot_err, temp_c, my_gps, gps_sentence, gps_rx, clock, printed, unitVars, boot_ticks, serviceVars>>

----------------------------------------------------------------------------
(* Zero-offset calibration *)

\* history only: the read handed back a frame of the sensor's length
FrameValid(frame) == Len(frame) = 4

\* len(calibration_readings) >= calibration_count
CalibrationComplete(readings) == Len(readings) >= calibration_count

\* variants of the loop condition: "while True" and a loop that runs once
CalibrationLoopNeverExits(done) == FALSE
CalibrationLoopExitsAtOnce(done) == TRUE

\* while not calibrated
CalibrationLoopExits(done) == done

\* logger.py: one iteration of the calibration loop
CalibrateLogger ==
    /\ script = "logger"
    /\ pc = "calibrating"
    /\ \/ \* i2c.readfrom raises: "Calibration error" is printed
          /\ UNCHANGED <<calVars, samples_ok, pitot_data>>
       \/ \E frame \in Frames :
            LET pressure_raw == parse_pitot_data(frame)[1] IN
            /\ pitot_data' = Some(frame)
            /\ samples_ok' = IF FrameValid(frame) THEN samples_ok + 1 ELSE samples_ok
            /\ IF pressure_raw # None
               THEN LET pressure_pa == raw_to_pressure_pa(Val(pressure_raw))
                        readings == Append(calibration_readings, pressure_pa)
                    IN  /\ calibration_readings' = readings
                        /\ IF CalibrationComplete(readings)
                           THEN /\ zero_offset' = Mean(readings)
                                /\ calibrated' = TRUE
                           ELSE UNCHANGED <<zero_offset, calibrated>>
               ELSE UNCHANGED calVars
    /\ clock' = ClockAfterCalibrationSleep
    /\ pc' = IF CalibrationLoopExits(calibrated') THEN "gps" ELSE "calibrating"
    /\ UNCHANGED <<script, pitot_pa, pressure_diff, airspeed, pitot_err, temp_c,
                   my_gps, gps_sentence, gps_rx, last_save, csv_file, printed, unitVars, boot_ticks, serviceVars>>

\* airspeed.py: one iteration of the calibration loop
CalibrateAirspeed ==
    /\ script = "airspeed"
    /\ pc = "calibrating"
    /\ \/ \* i2c.readfrom raises; the length test after the sleep stays false
          /\ UNCHANGED <<calVars, samples_ok, pitot_data>>
       \/ \E frame \in Frames :
            LET pa == parse_pressure_diff(frame)
                \* "if pa is not None" holds for every number
                readings == Append(calibration_readings, pa)
            IN  /\ pitot_data' = Some(frame)
                /\ samples_ok' = IF FrameValid(frame) THEN samples_ok + 1 ELSE samples_ok
                /\ calibration_readings' = readings
                /\ IF CalibrationComplete(readings)
                   THEN /\ zero_offset' = Mean(readings)
                        /\ calibrated' = TRUE
                   ELSE UNCHANGED <<zero_offset, calibrated>>
    /\ pc' = IF CalibrationLoopExits(calibrated') THEN "run" ELSE "calibrating"
    /\ UNCHANGED <<script, pitot_pa, pressure_diff, airspeed, pitot_err, temp_c,
                   my_gps, gps_sentence, gps_rx, clock, last_save, csv_file, printed, unitVars, boot_ticks, serviceVars>>

----------------------------------------------------------------------------
(* Steady-state loop of airspeed.py *)

\* variant that leaves the reading uncorrected
SubtractNothing(pa, offset) == pa

\* pressure_diff_pa -= zero_offset
SubtractZeroOffset(pa, offset) == pa - offset

\* one iteration of "while True"
AirspeedTick ==
    /\ script = "airspeed"
    /\ pc = "run"
    /\ \/ \* i2c.readfrom raises: "I2C read error" is printed, nothing is assigned
          UNCHANGED <<pitot_data, pressure_diff, airspeed, printed>>
       \/ \E frame \in Frames :
            LET pa == parse_pressure_diff(frame)
                \* "if pressure_diff_pa is not None" holds for every number
                pd == Some(SubtractZeroOffset(pa, zero_offset))
                v  == Some(Value(airspeed_from_pressure_diff(pd)))
            IN  /\ pitot_data' = Some(frame)
                /\ pressure_diff' = pd
                /\ airspeed' = v
                /\ printed' = Some(PrintLineAirspeed(v))
    /\ UNCHANGED <<script, pc, calVars, samples_ok, pitot_pa, pitot_err, temp_c,
                   my_gps, gps_sentence, gps_rx, clock, last_save, csv_file, unitVars, boot_ticks, serviceVars>>

----------------------------------------------------------------------------
(* Steady-state loop of logger.py and main.py, one action per step of a tick *)

InLoop == script \in {"logger", "main"} /\ pc \in {"gps", "pitot", "temp", "save"}

\* the GPS module sends a byte; the UART buffers it.  The buffer is looked at
\* in the drain loop only, so a byte that arrives during the rest of a tick is
\* taken to arrive when the next drain begins
GpsByteArrives ==
    /\ InLoop
    /\ pc = "gps"
    /\ gps_rx < MaxRx
    /\ gps_rx' = gps_rx + 1
    /\ UNCHANGED <<script, pc, calVars, samples_ok, pitot_data, pitot_pa, pressure_diff,
                   airspeed, pitot_err, temp_c, my_gps, gps_sentence, clock, last_save, csv_file,
                   printed, unitVars, boot_ticks, serviceVars>>

\* my_gps.update(char), <<gps_sentence, my_gps>> afterwards: a byte starts or
\* continues a sentence; the byte that ends a sentence takes the fix from it
\* when the sentence is valid and leaves the fix alone when it is not; a byte
\* outside any sentence is ignored
GpsUpdateOutcomes(sentence, fix) ==
    {<<TRUE, fix>>}
    \cup (IF sentence THEN {<<FALSE, f>> : f \in GpsFixes \cup {fix}} ELSE {<<FALSE, fix>>})

\* while gps_serial.any(): c = gps_serial.read(1); my_gps.update(chr(c[0]))
GpsDrainByte ==
    /\ InLoop
    /\ pc = "gps"
    /\ gps_rx > 0
    /\ gps_rx' = gps_rx - 1
    /\ \E after \in GpsUpdateOutcomes(gps_sentence, my_gps) :
         /\ gps_sentence' = after[1]
         /\ my_gps' = after[2]
    /\ UNCHANGED <<script, pc, calVars, samples_ok, pitot_data, pitot_pa, pressure_diff,
                   airspeed, pitot_err, temp_c, clock, last_save, csv_file, printed,
                   unitVars, boot_ticks, serviceVars>>

\* gps_serial.read or my_gps.update raises: nothing catches it
GpsFault ==
    /\ InLoop
    /\ pc = "gps"
    /\ gps_rx > 0
    /\ pc' = "terminated"
    /\ UNCHANGED <<script, calVars, samples_ok, pitot_data, pitot_pa, pressure_diff,
                   airspeed, pitot_err, temp_c, my_gps, gps_sentence, gps_rx, clock, last_save,
                   csv_file, printed, unitVars, boot_ticks, serviceVars>>

\* variant of the loop that makes a new MicropyGPS object every tick
GpsDrainDoneNewParser ==
    /\ InLoop
    /\ pc = "gps"
    /\ gps_rx = 0
    /\ pc' = "pitot"
    /\ my_gps' = NoFix
    /\ gps_sentence' = FALSE
    /\ UNCHANGED <<script, calVars, samples_ok, pitot_data, pitot_pa, pressure_diff,
                   airspeed, pitot_err, temp_c, gps_rx, clock, last_save,
                   csv_file, printed, unitVars, boot_ticks, serviceVars>>

\* gps_serial.any() is false
GpsDrainDone ==
    /\ InLoop
    /\ pc = "gps"
    /\ gps_rx = 0
    /\ pc' = "pitot"
    /\ UNCHANGED <<script, calVars, samples_ok, pitot_data, pitot_pa, pressure_diff,
                   airspeed, pitot_err, temp_c, my_gps, gps_sentence, gps_rx, clock, last_save,
                   csv_file, printed, unitVars, boot_ticks, serviceVars>>

\* variant of the except clause that resets pitot_pa only
PitotExceptKeepsReading(pa, pd, asp) == <<None, pd, asp>>

\* logger.py: the except clause of the pitot read, <<pitot_pa, pressure_diff, airspeed>>
PitotExcept(pa, pd, asp) == <<None, None, None>>

\* logger.py: the try block of the pitot read, <<pitot_pa, pressure_diff, airspeed>>
PitotTry(frame, offset) ==
    LET pressure_raw == parse_pitot_data(frame)[1]
        pa == IF pressure_raw # None
              THEN Some(SubtractZeroOffset(raw_to_pressure_pa(Val(pressure_raw)), offset))
              ELSE None
        asp == IF pa # None THEN Some(Value(airspeed_from_pressures(pa))) ELSE None
    IN  <<pa, pa, asp>>

PitotReadLogger ==
    /\ script = "logger"
    /\ pc = "pitot"
    /\ \/ \* i2c.readfrom raises
          /\ pitot_pa' = PitotExcept(pitot_pa, pressure_diff, airspeed)[1]
          /\ pressure_diff' = PitotExcept(pitot_pa, pressure_diff, airspeed)[2]
          /\ airspeed' = PitotExcept(pitot_pa, pressure_diff, airspeed)[3]
          /\ pitot_err' = TRUE
          /\ UNCHANGED pitot_data
       \/ \E frame \in Frames :
            /\ pitot_data' = Some(frame)
            /\ pitot_pa' = PitotTry(frame, zero_offset)[1]
            /\ pressure_diff' = PitotTry(frame, zero_offset)[2]
            /\ airspeed' = PitotTry(frame, zero_offset)[3]
            /\ pitot_err' = FALSE
    /\ pc' = "temp"
    /\ UNCHANGED <<script, calVars, samples_ok, temp_c, my_gps, gps_sentence, gps_rx, clock,
                   last_save, csv_file, printed, unitVars, boot_ticks, serviceVars>>

\* main.py: the except clause of the pitot read, <<pitot_pa, airspeed>>
PitotExceptMain(pa, asp) == <<None, None>>

PitotReadMain ==
    /\ script = "main"
    /\ pc = "pitot"
    /\ \/ \* i2c.readfrom raises
          /\ pitot_pa' = PitotExceptMain(pitot_pa, airspeed)[1]
          /\ airspeed' = PitotExceptMain(pitot_pa, airspeed)[2]
          /\ pitot_err' = TRUE
          /\ UNCHANGED pitot_data
       \/ \E frame \in Frames :
            LET pressure_raw == parse_pitot_data_main(frame)[1]
                pa == IF pressure_raw # None
                      THEN Some(raw_to_pressure_pa_main(Val(pressure_raw)))
                      ELSE None
                call == airspeed_from_pressures_main(pa, Some(STATIC_PRESSURE_PA))
            IN  /\ pitot_data' = Some(frame)
                /\ IF pa # None /\ call.raised
                   THEN /\ pitot_pa' = PitotExceptMain(pitot_pa, airspeed)[1]
                        /\ airspeed' = PitotExceptMain(pitot_pa, airspeed)[2]
                        /\ pitot_err' = TRUE
                   ELSE /\ pitot_pa' = pa
                        /\ airspeed' = IF pa # None THEN Some(Value(call)) ELSE None
                        /\ pitot_err' = FALSE
    /\ pc' = "temp"
    /\ UNCHANGED <<script, calVars, samples_ok, pressure_diff, temp_c, my_gps, gps_sentence, gps_rx,
                   clock, last_save, csv_file, printed, unitVars, boot_ticks, serviceVars>>

\* temp_c = read_onboard_temp_c()
TempRead ==
    /\ InLoop
    /\ pc = "temp"
    /\ \E reading \in AdcSamples : temp_c' = Some(read_onboard_temp_c(reading))
    /\ pc' = "save"
    /\ UNCHANGED <<script, calVars, samples_ok, pitot_data, pitot_pa, pressure_diff,
                   airspeed, pitot_err, my_gps, gps_sentence, gps_rx, clock, last_save, csv_file,
                   printed, unitVars, boot_ticks, serviceVars>>

\* machine.ADC(4) or read_u16 raises: nothing catches it
TempFault ==
    /\ InLoop
    /\ pc = "temp"
    /\ pc' = "terminated"
    /\ UNCHANGED <<script, calVars, samples_ok, pitot_data, pitot_pa, pressure_diff,
                   airspeed, pitot_err, temp_c, my_gps, gps_sentence, gps_rx, clock, last_save,
                   csv_file, printed, unitVars, boot_ticks, serviceVars>>

\* the values ticks_ms() can return at the end of this tick
NowChoices == {TicksAfter(clock, k * ClockStep) : k \in 1..2}

\* the model follows the loop for MaxClock ms
WithinHorizon(now) == Uptime(now) <= CalibrationTime + MaxClock

\* variant that saves in every tick
SaveDueEveryTick(now) == TRUE

\* if ticks_diff(now, last_save) >= 200 (logger.py), >= 1000 (main.py)
SaveDue(now) == ticks_diff(now, last_save) >= SaveInterval

csv_line(now) ==
    IF script = "logger"
    THEN CsvLineLogger(my_gps, now, airspeed, pressure_diff, temp_c)
    ELSE CsvLineMain(my_gps, airspeed, temp_c)

\* main.py prints the reading in every tick, logger.py prints none
PrintedAfterTick ==
    IF script = "main" THEN Some(PrintLineMain(my_gps, airspeed, temp_c)) ELSE printed

\* variant that opens the file with mode "w"
FileAfterTruncatingWrite(file, line) == [exists |-> TRUE, rows |-> <<line>>]

\* with open(csv_file_path, "a") as f: f.write(csv_line)
FileAfterAppend(file, line) == [exists |-> TRUE, rows |-> Append(file.rows, line)]

\* variant that leaves last_save alone when the append raised
LastSaveKeptOnFault(now, previous) == previous

\* last_save = now, after the try statement whether or not the append raised
LastSaveAfterAttempt(now, previous) == now

\* the save period has not elapsed: nothing is written
SaveSkip ==
    /\ InLoop
    /\ pc = "save"
    /\ \E now \in NowChoices :
         /\ WithinHorizon(now)
         /\ ~SaveDue(now)
         /\ clock' = now
    /\ printed' = PrintedAfterTick
    /\ pc' = "gps"
    /\ UNCHANGED <<script, calVars, samples_ok, pitot_data, pitot_pa, pressure_diff,
                   airspeed, pitot_err, temp_c, my_gps, gps_sentence, gps_rx, last_save, csv_file,
                   unitVars, boot_ticks, serviceVars>>

\* with open(csv_file_path, "a") as f: f.write(csv_line); last_save = now
SaveWrite ==
    /\ InLoop
    /\ pc = "save"
    /\ \E now \in NowChoices :
         /\ WithinHorizon(now)
         /\ SaveDue(now)
         /\ clock' = now
         /\ last_save' = now
         /\ csv_file' = FileAfterAppend(csv_file, csv_line(now))
    /\ printed' = PrintedAfterTick
    /\ pc' = "gps"
    /\ UNCHANGED <<script, calVars, samples_ok, pitot_data, pitot_pa, pressure_diff,
                   airspeed, pitot_err, temp_c, my_gps, gps_sentence, gps_rx, unitVars, boot_ticks, serviceVars>>

\* the append raises: "SD write error" is printed; last_save = now all the same
SaveFault ==
    /\ InLoop
    /\ pc = "save"
    /\ \E now \in NowChoices :
         /\ WithinHorizon(now)
         /\ SaveDue(now)
         /\ clock' = now
         /\ last_save' = LastSaveAfterAttempt(now, last_save)
    /\ printed' = PrintedAfterTick
    /\ pc' = "gps"
    /\ UNCHANGED <<script, calVars, samples_ok, pitot_data, pitot_pa, pressure_diff,
                   airspeed, pitot_err, temp_c, my_gps, gps_sentence, gps_rx, csv_file, unitVars, boot_ticks, serviceVars>>

----------------------------------------------------------------------------

Next ==
    \/ Boot
    \/ CalibrateLogger
    \/ CalibrateAirspeed
    \/ AirspeedTick
    \/ GpsByteArrives
    \/ GpsDrainByte
    \/ GpsFault
    \/ GpsDrainDone
    \/ PitotReadLogger
    \/ PitotReadMain
    \/ TempRead
    \/ TempFault
    \/ SaveSkip
    \/ SaveWrite
    \/ SaveFault

Spec == Init /\ [][Next]_vars

SpecNearWrap == InitNearWrap /\ [][Next]_vars

\* the steps the script itself takes: every step but the arrival of a byte
\* on the GPS serial line, which is the receiver's doing
ScriptStep ==
    \/ Boot
    \/ CalibrateLogger
    \/ CalibrateAirspeed
    \/ AirspeedTick
    \/ GpsDrainByte
    \/ GpsFault
    \/ GpsDrainDone
    \/ PitotReadLogger
    \/ PitotReadMain
    \/ TempRead
    \/ TempFault
    \/ SaveSkip
    \/ SaveWrite
    \/ SaveFault

\* the interpreter keeps running the script; the receiver sends when it likes
SpecLive == Init /\ [][Next]_vars /\ WF_vars(ScriptStep)

----------------------------------------------------------------------------
(* Unit harness: one call of one pure function on one input *)

UnitFrames ==
    {<<a, b, c, d>> : a \in {0, 6, 32, 57, 255}, b \in {0, 102, 153, 255},
                      c \in {0, 1}, d \in {0, 255}}
    \cup {<<>>, <<32>>, <<32, 0>>, <<32, 0, 0>>, <<32, 0, 0, 0, 0>>}
UnitPressures ==
    {None} \cup {Some(v) : v \in {-689476, -100, -1, 0, 1, 49, 100, 344764, 689476}}
UnitRaws == {0, 1637, 1638, 1639, 8192, 14744, 14745, 14746, 65535}
\* positions with every combination of hemisphere letter and incoming sign,
\* written <<latitude, south, longitude, west>> with south and west 0 or 1
UnitPositions ==
    {<<a, south, b, west>> : a \in {-34500000, 0, 34500000}, south \in {0, 1},
                             b \in {-118250000, 0, 118250000}, west \in {0, 1}}

\* the fix my_gps holds at such a position
FixAt(p) ==
    [FixFull EXCEPT !.latitude = [val |-> Some(p[1]), dir |-> IF p[2] = 1 THEN "S" ELSE "N"],
                    !.longitude = [val |-> Some(p[3]), dir |-> IF p[4] = 1 THEN "W" ELSE "E"]]
UnitInputs ==
    {[kind |-> "frame", v |-> f] : f \in UnitFrames}
    \cup {[kind |-> "position", v |-> p] : p \in UnitPositions}
    \cup {[kind |-> "pressure", v |-> p] : p \in UnitPressures}
    \cup {[kind |-> "raw", v |-> Some(r)] : r \in UnitRaws}

InitUnit ==
    /\ script = "unit"
    /\ pc = "unit"
    /\ calibration_readings = <<>>
    /\ calibrated = FALSE
    /\ zero_offset = 0
    /\ samples_ok = 0
    /\ pitot_data = None
    /\ pitot_pa = None
    /\ pressure_diff = None
    /\ airspeed = None
    /\ pitot_err = FALSE
    /\ temp_c = None
    /\ my_gps = NoFix
    /\ gps_sentence = FALSE
    /\ gps_rx = 0
    /\ clock = 0
    /\ boot_ticks = 0
    /\ last_save = 0
    /\ csv_file = NoFile
    /\ printed = None
    /\ arg \in {Some(i) : i \in UnitInputs}
    /\ result = None
    /\ ServicesIdle

flightVars ==
    <<script, pc, calVars, samples_ok, pitot_data, pitot_pa, pressure_diff, airspeed,
      pitot_err, temp_c, my_gps, gps_sentence, gps_rx, clock, boot_ticks, last_save, csv_file, printed>>

Call(kind, fn, out) ==
    /\ pc = "unit"
    /\ result = None
    /\ Val(arg).kind = kind
    /\ result' = Some([fn |-> fn, out |-> out])
    /\ UNCHANGED <<flightVars, arg, serviceVars>>

UnitParsePressureDiff ==
    Call("frame", "parse_pressure_diff", parse_pressure_diff(Val(arg).v))
UnitParsePitotData ==
    Call("frame", "parse_pitot_data", parse_pitot_data(Val(arg).v))
UnitParsePitotDataMain ==
    Call("frame", "parse_pitot_data_main", parse_pitot_data_main(Val(arg).v))
UnitRawToPressurePa ==
    Call("raw", "raw_to_pressure_pa", raw_to_pressure_pa(Val(Val(arg).v)))
UnitRawToPressurePaMain ==
    Call("raw", "raw_to_pressure_pa_main", raw_to_pressure_pa_main(Val(Val(arg).v)))
UnitAirspeedFromPressureDiff ==
    Call("pressure", "airspeed_from_pressure_diff", airspeed_from_pressure_diff(Val(arg).v))
UnitAirspeedFromPressures ==
    Call("pressure", "airspeed_from_pressures", airspeed_from_pressures(Val(arg).v))
\* main.py: the differential pressure is pitot_pa - static_pa; here static_pa = 0
UnitAirspeedFromPressuresMain ==
    Call("pressure", "airspeed_from_pressures_main",
         airspeed_from_pressures_main(Val(arg).v, Some(0)))

\* main.py: the try block of the pitot read, <<pitot_pa, airspeed>>
PitotTryMain(frame) ==
    LET pressure_raw == parse_pitot_data_main(frame)[1]
        pa == IF pressure_raw # None
              THEN Some(raw_to_pressure_pa_main(Val(pressure_raw)))
              ELSE None
        asp == IF pa # None
               THEN Some(Value(airspeed_from_pressures_main(pa, Some(STATIC_PRESSURE_PA))))
               ELSE None
    IN  <<pa, asp>>
UnitPitotTryMain ==
    Call("frame", "pitot_try_main", PitotTryMain(Val(arg).v))

\* logger.py, main.py: the latitude and longitude fields of the CSV row
UnitLatLonCsv ==
    Call("position", "lat_lon_csv", <<LatCsv(FixAt(Val(arg).v)), LonCsv(FixAt(Val(arg).v))>>)

NextUnit ==
    \/ UnitLatLonCsv
    \/ UnitParsePressureDiff
    \/ UnitParsePitotData
    \/ UnitParsePitotDataMain
    \/ UnitRawToPressurePa
    \/ UnitRawToPressurePaMain
    \/ UnitAirspeedFromPressureDiff
    \/ UnitAirspeedFromPressures
    \/ UnitAirspeedFromPressuresMain
    \/ UnitPitotTryMain

SpecUnit == InitUnit /\ [][NextUnit]_vars

----------------------------------------------------------------------------
(* Wind-plot HTTP API: src/model-fusion/api.py serving one POST request.    *)
(* arg holds the request, result the response with the plot call made.      *)

\* request bodies: each key of the JSON object is present or absent
ApiRequests ==
    [endpoint : {"wind-data", "wind-data-augmented"},
     departure : {None, Some("KSMO")},
     arrival : {None, Some("KJFK")},
     level : {None, Some("030")},
     max_pixels : {None, Some(300), Some(2000), Some(4000)},
     magnitude_factor : {None, Some(20)}]

InitApi ==
    /\ script = "api"
    /\ pc = "api"
    /\ calibration_readings = <<>>
    /\ calibrated = FALSE
    /\ zero_offset = 0
    /\ samples_ok = 0
    /\ pitot_data = None
    /\ pitot_pa = None
    /\ pressure_diff = None
    /\ airspeed = None
    /\ pitot_err = FALSE
    /\ temp_c = None
    /\ my_gps = NoFix
    /\ gps_sentence = FALSE
    /\ gps_rx = 0
    /\ clock = 0
    /\ boot_ticks = 0
    /\ last_save = 0
    /\ csv_file = NoFile
    /\ printed = None
    /\ arg \in {Some(r) : r \in ApiRequests}
    /\ result = None
    /\ ServicesIdle

\* 'departure' not in data or 'arrival' not in data or 'level' not in data
MissingRequired(data) ==
    data.departure = None \/ data.arrival = None \/ data.level = None

\* main.py, generate_and_upload_wind_plot: max_pixels = 600 if low_res else 2000
max_pixels_of(low_res) == IF low_res THEN 600 ELSE 2000

\* main.py, generate_and_upload_wind_plot: the plot the call asks for;
\* factors in tenths, the defaults 1.5 and 0.5 where none is given
PlotCall(data, magnitude_factor, angle_factor, low_res, augmented) ==
    [departure |-> Val(data.departure),
     arrival |-> Val(data.arrival),
     level |-> Val(data.level),
     augmented |-> augmented,
     magnitude_factor |-> IF ~augmented THEN None
                          ELSE IF magnitude_factor = None THEN Some(15)
                          ELSE magnitude_factor,
     angle_factor |-> IF ~augmented THEN None
                      ELSE IF angle_factor = None THEN Some(5)
                      ELSE angle_factor,
     max_pixels |-> max_pixels_of(low_res)]

\* the JSON response and, as history, the plot call behind it
Response(status, plot) == [status |-> status, plot |-> plot]

\* api.py: get_wind_data()
GetWindData ==
    /\ pc = "api"
    /\ result = None
    /\ Val(arg).endpoint = "wind-data"
    /\ IF MissingRequired(Val(arg))
       THEN result' = Some(Response(400, None))
       ELSE LET plot == PlotCall(Val(arg), None, None, TRUE, FALSE) IN
            \/ \* generate_and_upload_wind_plot returns the S3 URL
               result' = Some(Response(200, Some(plot)))
            \/ \* it raises: the handler answers 500
               result' = Some(Response(500, Some(plot)))
    /\ UNCHANGED <<flightVars, arg, serviceVars>>

\* api.py: get_wind_data_augmented()
GetWindDataAugmented ==
    /\ pc = "api"
    /\ result = None
    /\ Val(arg).endpoint = "wind-data-augmented"
    /\ IF MissingRequired(Val(arg))
       THEN result' = Some(Response(400, None))
       ELSE LET plot == PlotCall(Val(arg),
                                 IF Val(arg).magnitude_factor = None THEN Some(15)
                                 ELSE Val(arg).magnitude_factor,
                                 Some(5), TRUE, TRUE) IN
            \/ result' = Some(Response(200, Some(plot)))
            \/ result' = Some(Response(500, Some(plot)))
    /\ UNCHANGED <<flightVars, arg, serviceVars>>

NextApi ==
    \/ GetWindData
    \/ GetWindDataAugmented

SpecApi == InitApi /\ [][NextApi]_vars

----------------------------------------------------------------------------
(* Wind plot: one call of generate_and_upload_wind_plot of                  *)
(* src/model-fusion/main.py.  arg holds the arguments, result what the call *)
(* returned or raised.                                                      *)

PlotArguments ==
    [departure : {Some("KSMO")},
     arrival : {Some("KJFK")},
     level : {Some("030")},
     magnitude_factor : {None, Some(20)},
     angle_factor : {None, Some(10)},
     low_res : BOOLEAN,
     augmented : BOOLEAN]

InitPlot ==
    /\ script = "plot"
    /\ pc = "called"
    /\ FlightIdle
    /\ arg \in {Some(a) : a \in PlotArguments}
    /\ result = None
    /\ PlotIdle
    /\ RelayIdle
    /\ SimIdle
    /\ SnapIdle

\* with tempfile.TemporaryDirectory() as temp_dir
EnterTemporaryDirectory ==
    /\ script = "plot"
    /\ pc = "called"
    /\ temp_dir' = TRUE
    /\ pc' = "generate"
    /\ UNCHANGED <<plotFrame, unitVars, plot_file, uploaded, plot_outcome>>

\* plot_files = generate_wind_plots(...) or generate_wind_plots_augmented(...),
\* then "if not plot_files or not os.path.exists(plot_files[0]): raise"
GenerateWindPlots ==
    /\ script = "plot"
    /\ pc = "generate"
    /\ \/ \* the plot is saved into temp_dir and its path returned
          /\ plot_file' = TRUE
          /\ pc' = "upload"
          /\ UNCHANGED plot_outcome
       \/ \* the generation raises, perhaps after the file was written
          /\ plot_file' \in BOOLEAN
          /\ plot_outcome' = "raise"
          /\ pc' = "leave"
       \/ \* no path comes back or no file stands at it: RuntimeError
          /\ plot_file' = FALSE
          /\ plot_outcome' = "raise"
          /\ pc' = "leave"
    /\ UNCHANGED <<plotFrame, unitVars, temp_dir, uploaded>>

\* s3_url = upload_file_to_s3(plot_file): the URL, or the exception re-raised
UploadOutcome(stored) == IF stored THEN "return" ELSE "raise"

UploadFileToS3 ==
    /\ script = "plot"
    /\ pc = "upload"
    /\ \E stored \in BOOLEAN :
         /\ uploaded' = stored
         /\ IF UploadOutcome(stored) = "return"
            THEN /\ pc' = "remove"
                 /\ UNCHANGED plot_outcome
            ELSE /\ plot_outcome' = "raise"
                 /\ pc' = "leave"
    /\ UNCHANGED <<plotFrame, unitVars, temp_dir, plot_file>>

\* try: os.remove(plot_file) except Exception: pass; return s3_url
RemovePlotFile ==
    /\ script = "plot"
    /\ pc = "remove"
    /\ plot_file' \in {FALSE, plot_file}
    /\ plot_outcome' = "return"
    /\ pc' = "leave"
    /\ UNCHANGED <<plotFrame, unitVars, temp_dir, uploaded>>

\* variant of the exit that leaves the directory behind
DirectoryAfterExitKept(dir) == dir

\* TemporaryDirectory.__exit__: the directory and all it holds are deleted
DirectoryAfterExit(dir) == FALSE

\* the with statement is left by the return or by the re-raised exception
LeaveTemporaryDirectory ==
    /\ script = "plot"
    /\ pc = "leave"
    /\ temp_dir' = DirectoryAfterExit(temp_dir)
    /\ plot_file' = (plot_file /\ DirectoryAfterExit(temp_dir))
    /\ result' = Some([raised |-> plot_outcome = "raise",
                       url |-> IF plot_outcome = "return" THEN Some("s3-url") ELSE None,
                       max_pixels |-> max_pixels_of(Val(arg).low_res)])
    /\ pc' = "done"
    /\ UNCHANGED <<plotFrame, arg, uploaded, plot_outcome>>

NextPlot ==
    \/ EnterTemporaryDirectory
    \/ GenerateWindPlots
    \/ UploadFileToS3
    \/ RemovePlotFile
    \/ LeaveTemporaryDirectory

SpecPlot == InitPlot /\ [][NextPlot]_vars


(***************************************************************************)
(* Relay: POST /publish of api.py and the threads it starts                *)
(***************************************************************************)
\* how many /publish requests one run receives
MaxRequests == 2

\* values of 'data': the string "a" and the object {"v": "b"}
DataString == [str |-> TRUE, text |-> "a"]
DataObject == [str |-> FALSE, text |-> "b"]

\* request bodies: one that is not JSON, one without 'data', two with it
Payloads ==
    {[json |-> FALSE, data |-> None], [json |-> TRUE, data |-> None],
     [json |-> TRUE, data |-> Some(DataString)], [json |-> TRUE, data |-> Some(DataObject)]}

InitRelay ==
    /\ script = "relay"
    /\ pc = "serving"
    /\ FlightIdle
    /\ arg = None
    /\ result = None
    /\ PlotIdle
    /\ RelayIdle
    /\ SimIdle
    /\ SnapIdle

\* publish_to_channel: a string is sent as it is, any other value as json.dumps of it
MessageOf(data) ==
    IF data.str THEN data.text ELSE "{\"v\": \"" \o data.text \o "\"}"

\* threading.Thread(target=publish_to_channel, args=(data,)).start()
ThreadsAfterStartTwice(ts, request, data) ==
    Append(Append(ts, [request |-> request, data |-> data, state |-> "started"]),
           [request |-> request, data |-> data, state |-> "started"])
ThreadsAfterStart(ts, request, data) ==
    Append(ts, [request |-> request, data |-> data, state |-> "started"])

\* the response of publish() to one request body
PublishResponse(payload) ==
    IF ~payload.json THEN [status |-> 500, body |-> "error"]
    ELSE IF payload.data = None THEN [status |-> 400, body |-> "Missing data"]
    ELSE [status |-> 200, body |-> "publishing initiated"]

\* one request to POST /publish, from its receipt to its response
Publish ==
    /\ script = "relay"
    /\ Len(responses) < MaxRequests
    /\ \E payload \in Payloads :
         /\ responses' = Append(responses, [payload |-> payload, response |-> PublishResponse(payload)])
         /\ threads' = IF payload.json /\ payload.data # None
                       THEN ThreadsAfterStart(threads, Len(responses) + 1, Val(payload.data))
                       ELSE threads
    /\ UNCHANGED <<relayFrame, channel>>

\* publish_to_channel: connect(HARDCODED_CHANNEL) returns or raises
ThreadConnect ==
    /\ script = "relay"
    /\ \E i \in 1..Len(threads) :
         /\ threads[i].state = "started"
         /\ \E ok \in BOOLEAN :
              threads' = [threads EXCEPT ![i].state = IF ok THEN "connected" ELSE "failed"]
    /\ UNCHANGED <<relayFrame, channel, responses>>

\* publish_to_channel: websocket.send(message) returns or raises
ThreadSend ==
    /\ script = "relay"
    /\ \E i \in 1..Len(threads) :
         /\ threads[i].state = "connected"
         /\ \/ /\ channel' = Append(channel, [request |-> threads[i].request,
                                              message |-> MessageOf(threads[i].data)])
               /\ threads' = [threads EXCEPT ![i].state = "sent"]
            \/ /\ threads' = [threads EXCEPT ![i].state = "failed"]
               /\ UNCHANGED channel
    /\ UNCHANGED <<relayFrame, responses>>

\* publish_to_channel: websocket.recv() returns or raises, both ignored
ThreadRecv ==
    /\ script = "relay"
    /\ \E i \in 1..Len(threads) :
         /\ threads[i].state = "sent"
         /\ threads' = [threads EXCEPT ![i].state = "done"]
    /\ UNCHANGED <<relayFrame, channel, responses>>

NextRelay ==
    \/ Publish
    \/ ThreadConnect
    \/ ThreadSend
    \/ ThreadRecv

SpecRelay == InitRelay /\ [][NextRelay]_vars


(***************************************************************************)
(* Simulator: FlightDataGenerator and flight_data_server of                *)
(* src/simulator/main.py.  Angles and humidity are in tenths, speed_factor *)
(* in hundredths.                                                          *)
(***************************************************************************)
\* how many generate_data calls the generator harness makes
MaxCalls == 3
\* how many client connections the server gets, and messages on each
MaxConnections == 2
MaxMessages == 4

\* the random draws of __init__: humidity U(10, 90), track and heading U(0, 359.9)
InitDraws == [humidity : {100, 455, 900}, track : {0, 10, 3599}, heading : {0, 3599}]

\* the random draws of one generate_data call: speed_factor U(-0.02, 0.02),
\* track U(-1, 1), humidity U(-1, 1), and the bearing atan2 returns, in
\* [-180, 180].  below says that the float sum track + draw is under the
\* tenth it is nearest to, by less than half the spacing of floats at 360.
Draws ==
    [speed : {-2, 0, 2}, track : {-10, 0, 10}, below : BOOLEAN,
     humidity : {-10, 0, 10}, bearing : {-1800, -900, 0, 1800}]

\* FlightDataGenerator.__init__
NewGenerator(flight_id, d) ==
    [flight_id |-> flight_id, speed_factor |-> 5000, humidity |-> d.humidity,
     track |-> d.track, heading |-> d.heading, step_count |-> 0]

Max(a, b) == IF a > b THEN a ELSE b
Min(a, b) == IF a < b THEN a ELSE b

\* x % 360 on floats: for x < 0 Python returns fmod(x, 360) + 360, and when x
\* is under 0 by less than half the spacing of floats at 360 that sum rounds
\* to 360.0
float_mod_360(x, below) == IF x = 0 /\ below THEN 3600 ELSE x % 3600

\* _calculate_heading: (math.degrees(initial_bearing) + 360) % 360
calculate_heading(bearing) == float_mod_360(bearing + 3600, FALSE)

\* self.humidity = max(10.0, min(90.0, self.humidity))
HumidityKept(h) == Max(100, Min(900, h))

\* generate_data: the generator afterwards
generate_data(g, d) ==
    [g EXCEPT !.speed_factor = Max(20, Min(300, g.speed_factor + d.speed)),
              !.step_count = g.step_count + 1,
              !.track = float_mod_360(g.track + d.track, d.below),
              !.humidity = HumidityKept(g.humidity + d.humidity),
              !.heading = calculate_heading(d.bearing)]

\* generate_data: the dict returned
MessageData(g) ==
    [flightId |-> g.flight_id, track |-> g.track, heading |-> g.heading,
     humidity |-> g.humidity, speedFactor |-> g.speed_factor]

\* a FlightDataGenerator() alone, as constructed without arguments
InitGen ==
    /\ script = "generator"
    /\ pc = "idle"
    /\ FlightIdle
    /\ arg = None
    /\ result = None
    /\ PlotIdle
    /\ RelayIdle
    /\ generators \in {<< <<NewGenerator("FL1000", d)>> >> : d \in InitDraws}
    /\ calls = << <<0>> >>
    /\ message = None
    /\ conn = <<>>
    /\ turn = <<>>
    /\ sent = <<>>
    /\ SnapIdle

\* one call of generate_data on it
GenerateData ==
    /\ script = "generator"
    /\ calls[1][1] < MaxCalls
    /\ \E d \in Draws :
         /\ generators' = [generators EXCEPT ![1][1] = generate_data(@, d)]
         /\ message' = Some(MessageData(generate_data(generators[1][1], d)))
    /\ calls' = [calls EXCEPT ![1][1] = @ + 1]
    /\ UNCHANGED <<simFrame, conn, turn, sent>>

NextGen == GenerateData

SpecGen == InitGen /\ [][NextGen]_vars

\* flight_data_server: the flights of a connection, in the order of the list
FlightIds == <<"N32169", "N777VP", "N400JW">>

\* the draws the server model takes: one start and one step for every generator
SimInitDraws == {d \in InitDraws : d.humidity = 455 /\ d.track = 10 /\ d.heading = 0}
SimDraws ==
    {d \in Draws : d.speed = -2 /\ d.track = 10 /\ ~d.below /\ d.humidity = 10
                   /\ d.bearing = -900}

Connections == 1..MaxConnections

InitSim ==
    /\ script = "simulator"
    /\ pc = "serving"
    /\ FlightIdle
    /\ arg = None
    /\ result = None
    /\ PlotIdle
    /\ RelayIdle
    /\ generators = [c \in Connections |-> <<>>]
    /\ calls = [c \in Connections |-> <<>>]
    /\ message = None
    /\ conn = [c \in Connections |-> "none"]
    /\ turn = [c \in Connections |-> 1]
    /\ sent = [c \in Connections |-> <<>>]
    /\ SnapIdle

\* a client connects: flight_data_server starts and makes its three generators
ClientConnects ==
    /\ script = "simulator"
    /\ \E c \in Connections :
         /\ conn[c] = "none"
         /\ conn' = [conn EXCEPT ![c] = "open"]
         /\ \E d \in SimInitDraws :
              generators' = [generators EXCEPT
                               ![c] = [i \in 1..3 |-> NewGenerator(FlightIds[i], d)]]
         /\ calls' = [calls EXCEPT ![c] = <<0, 0, 0>>]
    /\ UNCHANGED <<simFrame, message, turn, sent>>

\* the generator after the one at position i of the for loop
NextTurnSameFlight(i) == i
NextTurn(i) == (i % 3) + 1

\* one pass of the for body: generate_data, websocket.send, asyncio.sleep(0.1)
SendFlightData ==
    /\ script = "simulator"
    /\ \E c \in Connections :
         /\ conn[c] = "open"
         /\ Len(sent[c]) < MaxMessages
         /\ \E d \in SimDraws :
              /\ generators' = [generators EXCEPT ![c][turn[c]] = generate_data(@, d)]
              /\ message' = Some(MessageData(generate_data(generators[c][turn[c]], d)))
         /\ calls' = [calls EXCEPT ![c][turn[c]] = @ + 1]
         /\ sent' = [sent EXCEPT ![c] = Append(@, generators[c][turn[c]].flight_id)]
         /\ turn' = [turn EXCEPT ![c] = NextTurn(@)]
    /\ UNCHANGED <<simFrame, conn>>

\* the client goes away; the handler is in one of its sleeps
ClientCloses ==
    /\ script = "simulator"
    /\ \E c \in Connections :
         /\ conn[c] = "open"
         /\ conn' = [conn EXCEPT ![c] = "closing"]
    /\ UNCHANGED <<simFrame, generators, calls, message, turn, sent>>

\* generate_data, then websocket.send raises ConnectionClosed: the handler ends
SendRaisesConnectionClosed ==
    /\ script = "simulator"
    /\ \E c \in Connections :
         /\ conn[c] = "closing"
         /\ \E d \in SimDraws :
              /\ generators' = [generators EXCEPT ![c][turn[c]] = generate_data(@, d)]
              /\ message' = Some(MessageData(generate_data(generators[c][turn[c]], d)))
         /\ calls' = [calls EXCEPT ![c][turn[c]] = @ + 1]
         /\ conn' = [conn EXCEPT ![c] = "closed"]
    /\ UNCHANGED <<simFrame, turn, sent>>

NextSim ==
    \/ ClientConnects
    \/ SendFlightData
    \/ ClientCloses
    \/ SendRaisesConnectionClosed

SpecSim == InitSim /\ [][NextSim]_vars


(***************************************************************************)
(* Snap tester: src/snap/tester/main.py                                    *)
(***************************************************************************)
\* how many seconds of the tester the model follows
MaxSeconds == 6

\* await asyncio.sleep(2) between two sends
HiPeriod == 2

InitSnap ==
    /\ script = "snap"
    /\ pc = "running"
    /\ FlightIdle
    /\ arg = None
    /\ result = None
    /\ PlotIdle
    /\ RelayIdle
    /\ SimIdle
    /\ task = "connect"
    /\ main_loop = "looping"
    /\ seconds = 0
    /\ wake_at = 0
    /\ hi_sent = <<>>
    /\ connects = 0
    /\ interrupted = FALSE

\* variant that goes back to connecting after an exception
TaskAfterExceptionReconnect == "connect"

\* except Exception as e: print(...); the coroutine returns
TaskAfterException == "ended"

\* async with websockets.connect(uri) as websocket: the connection is made
ConnectOk ==
    /\ script = "snap"
    /\ task = "connect"
    /\ task' = "send"
    /\ connects' = connects + 1
    /\ UNCHANGED <<snapFrame, main_loop, seconds, wake_at, hi_sent, interrupted>>

\* websockets.connect raises
ConnectFails ==
    /\ script = "snap"
    /\ task = "connect"
    /\ task' = TaskAfterException
    /\ connects' = connects + 1
    /\ UNCHANGED <<snapFrame, main_loop, seconds, wake_at, hi_sent, interrupted>>

\* await websocket.send("hi"); print; await asyncio.sleep(2) begins
SendHi ==
    /\ script = "snap"
    /\ task = "send"
    /\ hi_sent' = Append(hi_sent, seconds)
    /\ wake_at' = seconds + HiPeriod
    /\ task' = "sleep"
    /\ UNCHANGED <<snapFrame, main_loop, seconds, connects, interrupted>>

\* websocket.send raises: the connection is gone
SendRaises ==
    /\ script = "snap"
    /\ task = "send"
    /\ task' = TaskAfterException
    /\ UNCHANGED <<snapFrame, main_loop, seconds, wake_at, hi_sent, connects, interrupted>>

\* asyncio.sleep(2) is over
SleepOver ==
    /\ script = "snap"
    /\ task = "sleep"
    /\ seconds >= wake_at
    /\ task' = "send"
    /\ UNCHANGED <<snapFrame, main_loop, seconds, wake_at, hi_sent, connects, interrupted>>

\* main: while True: await asyncio.sleep(1)
MainSleep ==
    /\ script = "snap"
    /\ main_loop = "looping"
    /\ seconds < MaxSeconds
    /\ seconds' = seconds + 1
    /\ UNCHANGED <<snapFrame, task, main_loop, wake_at, hi_sent, connects, interrupted>>

\* KeyboardInterrupt: asyncio.run cancels main, which cancels the task
Interrupt ==
    /\ script = "snap"
    /\ main_loop = "looping"
    /\ interrupted' = TRUE
    /\ main_loop' = "terminated"
    /\ task' = IF task = "ended" THEN "ended" ELSE "cancelled"
    /\ UNCHANGED <<snapFrame, seconds, wake_at, hi_sent, connects>>

NextSnap ==
    \/ ConnectOk
    \/ ConnectFails
    \/ SendHi
    \/ SendRaises
    \/ SleepOver
    \/ MainSleep
    \/ Interrupt

SpecSnap == InitSnap /\ [][NextSnap]_vars

----------------------------------------------------------------------------
(* Claims *)

NewestRow == csv_file.rows[Len(csv_file.rows)]
FrameOf(o) == Val(o)
RawPressureOf(frame) == frame[1] * 256 + frame[2]

\* C1: in airspeed.py and logger.py the calibrated state is entered exactly when
\* the accumulator holds 5 samples, all 5 of them successful reads of a 4-byte
\* frame, and zero_offset is the arithmetic mean of those 5 values.
C1_ExactlyFiveSuccessfulSamples ==
    /\ calibrated <=> Len(calibration_readings) >= 5
    /\ calibrated =>
         /\ Len(calibration_readings) = 5
         /\ samples_ok = 5
         /\ zero_offset = Mean(calibration_readings)

\* C2: once calibrated is true, no step writes zero_offset, calibration_readings
\* or calibrated again.
C2_CalibrationFrozen == [][calibrated => UNCHANGED calVars]_vars

C2_Witness ==
    /\ script = "logger"
    /\ calibrated
    /\ pitot_err
    /\ pc = "gps"
    /\ zero_offset > 0
    /\ Len(csv_file.rows) > 1
    /\ NewestRow[2] = ToString(clock)

\* a step that prints a reading or appends a data row to the CSV file
EmitsReading ==
    \/ printed' # printed
    \/ pc # "boot" /\ csv_file'.rows # csv_file.rows

\* C3 as stated: in airspeed.py, logger.py and main.py no reading is printed and
\* no CSV data row is appended before calibration has completed.
C3_NoReadingBeforeCalibration == [][EmitsReading => calibrated]_vars

\* C3 amended: in airspeed.py and logger.py no reading is printed and no CSV data
\* row is appended before the 5-sample calibration has completed.
C3_NoReadingBeforeCalibrationInCalibratingScripts ==
    [][(script \in {"airspeed", "logger"} /\ EmitsReading) =>
           (calibrated /\ Len(calibration_readings) = calibration_count)]_vars

C3_Witness ==
    /\ script = "logger"
    /\ calibrated
    /\ pc = "gps"
    /\ Len(csv_file.rows) > 1
    /\ NewestRow[2] = ToString(clock)
    /\ NewestRow[6] # ""

\* C4: during calibration a step whose frame is not 4 bytes long leaves the
\* accumulator, the calibrated flag and zero_offset as they were, in airspeed.py
\* and in logger.py.
C4_WrongLengthFrameDiscarded ==
    [][(pc = "calibrating" /\ pitot_data' # None /\ Len(FrameOf(pitot_data')) # 4)
           => UNCHANGED calVars]_vars

\* C5: in the steady state a frame whose length is not 4 leaves pressure_diff and
\* airspeed null, in all three scripts.
C5_WrongLengthFrameGivesNull ==
    (pc \in {"run", "gps", "pitot", "temp", "save"}
        /\ pitot_data # None /\ Len(FrameOf(pitot_data)) # 4)
    => (pressure_diff = None /\ airspeed = None)

C6_RowAppended == pc = "save" /\ Len(csv_file'.rows) = Len(csv_file.rows) + 1
C6_RowOfTick == csv_file'.rows[Len(csv_file'.rows)]

\* C6: when the sensor read raises in a tick of logger.py or main.py, airspeed and
\* pressure_diff are null, the fix and the temperature are untouched by the
\* fault, and the row of that tick has empty airspeed and pressure_diff fields
\* while its GPS and temperature fields are the formatted fix and temperature.
C6_BusFaultNullsOnlyPressureFields ==
    /\ [](pitot_err => (pitot_pa = None /\ pressure_diff = None /\ airspeed = None))
    /\ [][(pc = "pitot" /\ pitot_err') => UNCHANGED <<my_gps, temp_c>>]_vars
    /\ [][(C6_RowAppended /\ pitot_err) =>
            /\ temp_c # None
            /\ IF script = "logger"
               THEN /\ C6_RowOfTick[6] = ""
                    /\ C6_RowOfTick[7] = ""
                    /\ C6_RowOfTick[1] = GpsTime(my_gps)
                    /\ C6_RowOfTick[3] = LatCsv(my_gps)
                    /\ C6_RowOfTick[4] = LonCsv(my_gps)
                    /\ C6_RowOfTick[5] = ElevationCsv(my_gps)
                    /\ C6_RowOfTick[8] = Fmt2f(Val(temp_c))
                    /\ C6_RowOfTick[9] = NumSatsCsv(my_gps)
               ELSE /\ C6_RowOfTick[5] = ""
                    /\ C6_RowOfTick[1] = GpsTime(my_gps)
                    /\ C6_RowOfTick[2] = LatCsv(my_gps)
                    /\ C6_RowOfTick[3] = LonCsv(my_gps)
                    /\ C6_RowOfTick[4] = ElevationCsv(my_gps)
                    /\ C6_RowOfTick[6] = Fmt2f(Val(temp_c))
                    /\ C6_RowOfTick[7] = NumSatsCsv(my_gps)]_vars

C6_Witness ==
    /\ script = "logger"
    /\ pc = "gps"
    /\ pitot_err
    /\ my_gps = FixFull
    /\ Len(csv_file.rows) > 1
    /\ NewestRow[2] = ToString(clock)
    /\ NewestRow[6] = ""
    /\ NewestRow[3] = "-34.50000000"
    /\ NewestRow[8] # ""

\* C7: no fault of a tick's steps (pitot read, GPS read or parse, temperature
\* read, file write) terminates the loop of logger.py or main.py.
C7_NoFaultTerminatesLoop == pc # "terminated"

ConverterNames ==
    {"airspeed_from_pressure_diff", "airspeed_from_pressures",
     "airspeed_from_pressures_main"}

\* C8: each of the three airspeed converters returns without raising, returns a
\* non-negative value, and returns 0 for a missing, negative or zero
\* differential pressure.
C8_ConverterTotalAndNonNegative ==
    (result # None /\ Val(result).fn \in ConverterNames) =>
        /\ ~Val(result).out.raised
        /\ Value(Val(result).out) >= 0
        /\ (Val(arg).v = None \/ Val(Val(arg).v) <= 0) => Value(Val(result).out) = 0

\* C9: after calibration, in airspeed.py and logger.py, a reading built from a
\* 4-byte frame has pressure_diff = raw_to_pascals(raw) - zero_offset, with
\* zero_offset the mean of the calibration samples, and airspeed is the converter
\* applied to that corrected value, hence 0 when it is negative.
C9_ZeroOffsetSubtracted ==
    (script \in {"airspeed", "logger"} /\ calibrated /\ pressure_diff # None
        /\ pitot_data # None /\ Len(FrameOf(pitot_data)) = 4)
    => /\ zero_offset = Mean(calibration_readings)
       /\ Val(pressure_diff) =
              raw_to_pressure_pa(RawPressureOf(FrameOf(pitot_data))) - zero_offset
       /\ airspeed # None
       /\ Val(airspeed) = IF Val(pressure_diff) < 0 THEN 0
                          ELSE sqrt(MulDiv(Val(pressure_diff), 8000, 49))

C9_Witness ==
    /\ script = "logger"
    /\ calibrated
    /\ zero_offset > 0
    /\ pitot_data = Some(FrameRest)
    /\ pressure_diff # None
    /\ Val(pressure_diff) < 0
    /\ airspeed = Some(0)

C10_Pair(frame) ==
    <<Some(frame[1] * 256 + frame[2]), Some(frame[3] * 256 + frame[4])>>

\* C10 as stated: the decoder returns Invalid (the None pair in logger.py and
\* main.py, zero in airspeed.py) iff the frame is not 4 bytes long, and for a
\* 4-byte frame the big-endian raw pressure and raw temperature.
C10_DecoderInvalidIffWrongLength ==
    result # None =>
        CASE Val(result).fn = "parse_pressure_diff" ->
                 (Val(result).out = 0) <=> (Len(Val(arg).v) # 4)
          [] Val(result).fn \in {"parse_pitot_data", "parse_pitot_data_main"} ->
                 /\ (Val(result).out = <<None, None>>) <=> (Len(Val(arg).v) # 4)
                 /\ Len(Val(arg).v) = 4 => Val(result).out = C10_Pair(Val(arg).v)
          [] OTHER -> TRUE

\* C10 amended: parse_pitot_data (logger.py, main.py) returns the None pair iff
\* the frame is not 4 bytes long and otherwise the big-endian raw pressure and
\* raw temperature, each in 0..65535; parse_pressure_diff (airspeed.py) returns 0
\* for a frame that is not 4 bytes long and otherwise the pascal value of the
\* big-endian raw pressure, which is 0 as well whenever that raw pressure is at
\* most 1638.
C10_DecoderResult ==
    result # None =>
        CASE Val(result).fn = "parse_pressure_diff" ->
                 /\ Len(Val(arg).v) # 4 => Val(result).out = 0
                 /\ Len(Val(arg).v) = 4 =>
                      /\ Val(result).out = raw_to_pressure_pa(RawPressureOf(Val(arg).v))
                      /\ (Val(result).out = 0) <=> (RawPressureOf(Val(arg).v) <= 1638)
          [] Val(result).fn \in {"parse_pitot_data", "parse_pitot_data_main"} ->
                 /\ (Val(result).out = <<None, None>>) <=> (Len(Val(arg).v) # 4)
                 /\ Len(Val(arg).v) = 4 =>
                      /\ Val(result).out = C10_Pair(Val(arg).v)
                      /\ Val(Val(result).out[1]) \in 0..65535
                      /\ Val(Val(result).out[2]) \in 0..65535
          [] OTHER -> TRUE

C10_Witness ==
    /\ result # None
    /\ Val(result).fn = "parse_pressure_diff"
    /\ Len(Val(arg).v) = 4
    /\ RawPressureOf(Val(arg).v) = 1638
    /\ Val(result).out = 0

C11_Expected(raw) ==
    IF raw <= 1638 THEN 0
    ELSE IF raw >= 14745 THEN 689476
    ELSE MulDiv(raw - 1638, 689476, 14745 - 1638)

C11_Apply(fn, raw) ==
    IF fn = "raw_to_pressure_pa" THEN raw_to_pressure_pa(raw)
    ELSE raw_to_pressure_pa_main(raw)

\* C11: raw_to_pascals (raw_to_pressure_pa of logger.py and main.py, the scaling
\* inside parse_pressure_diff of airspeed.py) maps every raw value up to 1638 to
\* 0 Pa, every raw value from 14745 on to 6894.76 Pa and a raw value in between
\* to (raw - 1638) / (14745 - 1638) * 6894.76 Pa; the result lies in
\* [0, 6894.76] and no smaller raw value in 0..65535 gives a larger result.
C11_RawToPascalsClampedAndMonotonic ==
    result # None =>
        CASE Val(result).fn \in {"raw_to_pressure_pa", "raw_to_pressure_pa_main"} ->
                 LET raw == Val(Val(arg).v)
                     out == Val(result).out
                 IN  /\ out = C11_Expected(raw)
                     /\ out \in 0..689476
                     /\ \A smaller \in 0..65535 :
                          smaller <= raw => C11_Apply(Val(result).fn, smaller) <= out
          [] Val(result).fn = "parse_pressure_diff" /\ Len(Val(arg).v) = 4 ->
                 LET raw == RawPressureOf(Val(arg).v)
                     out == Val(result).out
                 IN  /\ out = C11_Expected(raw)
                     /\ out \in 0..689476
                     /\ \A other \in UnitFrames :
                          (Len(other) = 4 /\ RawPressureOf(other) <= raw)
                              => parse_pressure_diff(other) <= out
          [] OTHER -> TRUE

C11_Witness ==
    /\ result # None
    /\ Val(result).fn = "raw_to_pressure_pa"
    /\ Val(Val(arg).v) = 65535
    /\ Val(result).out = 689476

C12_Signed(c) ==
    IF c.dir \in {"S", "W"} THEN -Abs(Val(c.val)) ELSE Abs(Val(c.val))

\* C12: for a fix with latitude and longitude, the latitude and longitude
\* fields of the CSV row are the 8-decimal text of the value with its magnitude
\* unchanged and its sign set by the hemisphere letter, whatever sign the value
\* arrived with: not positive for 'S' and 'W', not negative for 'N' and 'E'.
C12_SignFollowsHemisphere ==
    (result # None /\ Val(result).fn = "lat_lon_csv" /\ HasPosition(FixAt(Val(arg).v))) =>
        LET gps == FixAt(Val(arg).v)
            lat == C12_Signed(gps.latitude)
            lon == C12_Signed(gps.longitude)
        IN  /\ gps.latitude.dir = "S" => lat <= 0
            /\ gps.latitude.dir = "N" => lat >= 0
            /\ gps.longitude.dir = "W" => lon <= 0
            /\ gps.longitude.dir = "E" => lon >= 0
            /\ Abs(lat) = Abs(Val(gps.latitude.val))
            /\ Abs(lon) = Abs(Val(gps.longitude.val))
            /\ Val(result).out = <<Fmt8f(lat), Fmt8f(lon)>>

C12_Witness ==
    /\ result # None
    /\ Val(result).fn = "lat_lon_csv"
    /\ FixAt(Val(arg).v).latitude = [val |-> Some(34500000), dir |-> "S"]
    /\ FixAt(Val(arg).v).longitude = [val |-> Some(-118250000), dir |-> "E"]
    /\ Val(result).out = <<"-34.50000000", "118.25000000">>

Header == IF script = "logger" THEN HeaderLogger ELSE HeaderMain

\* C13: at start-up of logger.py and main.py the header is written iff the log
\* file does not exist, and an existing file keeps its content with no second
\* header; every later write appends exactly one row at the end and leaves the
\* rows already in the file as they were.
C13_HeaderOnceThenAppendOnly ==
    /\ [][pc = "boot" =>
             IF csv_file.exists
             THEN csv_file' = csv_file
             ELSE csv_file' = [exists |-> TRUE, rows |-> <<Header>>]]_vars
    /\ [][pc # "boot" =>
             \/ csv_file' = csv_file
             \/ /\ csv_file'.exists
                /\ Len(csv_file'.rows) = Len(csv_file.rows) + 1
                /\ SubSeq(csv_file'.rows, 1, Len(csv_file.rows)) = csv_file.rows]_vars
    /\ [](csv_file.exists =>
             \A i \in 2..Len(csv_file.rows) : csv_file.rows[i] # Header)

C13_Witness ==
    /\ script = "logger"
    /\ Len(csv_file.rows) = 4
    /\ csv_file.rows[1] = HeaderLogger
    /\ csv_file.rows[2] = OldRowLogger
    /\ csv_file.rows[3][2] = ToString(TicksAfter(boot_ticks, 600))
    /\ csv_file.rows[4][2] = ToString(TicksAfter(boot_ticks, 800))

RowAppended == pc = "save" /\ Len(csv_file'.rows) = Len(csv_file.rows) + 1
RowOfTick == csv_file'.rows[Len(csv_file'.rows)]

\* the value behind a column is missing in the tick that writes the row
C14_Unavailable(column) ==
    CASE column = "time" -> my_gps.timestamp = None
      [] column = "latitude" -> my_gps.latitude.val = None
      [] column = "longitude" -> my_gps.longitude.val = None
      [] column = "elevation" -> my_gps.altitude = None
      [] column = "satellites" -> my_gps.satellites_in_use = None
      [] column = "airspeed" -> airspeed = None
      [] column = "pressure_diff" -> pressure_diff = None
      [] column = "temp" -> temp_c = None
      [] OTHER -> FALSE

\* C14: in every data row that logger.py or main.py appends, each column whose
\* value is unavailable in that tick (GPS time, latitude, longitude, elevation,
\* satellites, airspeed, pressure_diff, temp) is the empty string.
C14_UnavailableFieldIsEmpty ==
    [][RowAppended =>
          \A k \in 1..Len(Header) : C14_Unavailable(Header[k]) => RowOfTick[k] = ""]_vars

\* the text the tick writes under a column
C15_Field(column) ==
    CASE column = "time" -> GpsTime(my_gps)
      [] column = "timestamp_ms" -> ToString(clock')
      [] column = "latitude" -> LatCsv(my_gps)
      [] column = "longitude" -> LonCsv(my_gps)
      [] column = "elevation" -> ElevationCsv(my_gps)
      [] column = "airspeed" -> Csv2f(airspeed)
      [] column = "pressure_diff" -> Csv2f(pressure_diff)
      [] column = "temp" -> Csv2f(temp_c)
      [] column = "satellites" -> NumSatsCsv(my_gps)

\* C15: every data row appended by logger.py or main.py has as many fields as
\* the header has columns (9 in logger.py, 7 in main.py) and holds under each
\* column the tick's value for it, whether or not the sensor read failed, the
\* frame had the wrong length or the GPS has no fix.
C15_RowMatchesHeader ==
    [][RowAppended =>
          /\ Len(Header) = IF script = "logger" THEN 9 ELSE 7
          /\ Len(RowOfTick) = Len(Header)
          /\ \A k \in 1..Len(Header) : RowOfTick[k] = C15_Field(Header[k])]_vars

C15_Witness ==
    /\ script = "logger"
    /\ pc = "gps"
    /\ pitot_err
    /\ my_gps = NoFix
    /\ Len(csv_file.rows) = 3
    /\ csv_file.rows[2] # OldRowLogger
    /\ csv_file.rows[2][7] # ""
    /\ NewestRow = <<"??:??:??", ToString(clock), "", "", "", "", "", "27.60", "">>

\* the ticks_ms() values a run can write, to read a timestamp_ms field back
C16_Ticks ==
    {TicksAfter(boot_ticks, CalibrationTime + k * ClockStep) : k \in 0..MaxClockSteps}
C16_TimestampOf(row) == CHOOSE t \in C16_Ticks : ToString(t) = row[2]

\* C16: within one run of logger.py the timestamp_ms values of the rows it
\* appends are strictly increasing, also when ticks_ms() reaches the end of its
\* range during the run.
C16_TimestampsStrictlyIncreasing ==
    script = "logger" =>
        \A i, j \in 2..Len(csv_file.rows) :
            (i < j /\ csv_file.rows[i] # OldRowLogger) =>
                C16_TimestampOf(csv_file.rows[i]) < C16_TimestampOf(csv_file.rows[j])

\* a tick whose save was due and whose append raised: nothing reached the file
C17_AppendRaised ==
    pc = "save" /\ pc' = "gps" /\ SaveDue(clock') /\ csv_file' = csv_file

\* C17: when the append raises in logger.py or main.py, the row of that tick is
\* dropped, last_save is advanced to the time of the attempt and the loop goes
\* on; the next write happens a full interval after the failed attempt at the
\* earliest and writes the row of its own tick, not the dropped one.
C17_FailedAppendDropsRow ==
    /\ [][C17_AppendRaised => (last_save' = clock' /\ pc' = "gps")]_vars
    /\ [][RowAppended =>
             /\ ticks_diff(clock', last_save) >= SaveInterval
             /\ RowOfTick = csv_line(clock')]_vars

C17_Witness ==
    /\ script = "logger"
    /\ pc = "gps"
    /\ csv_file.rows = <<HeaderLogger, csv_line(clock)>>
    /\ clock = TicksAfter(boot_ticks, CalibrationTime + 3 * ClockStep)
    /\ last_save = clock

\* C18: the rows logger.py and main.py append stand in the file in the order of
\* the ticks that sampled them: the file changes only by the current tick's row
\* being put after all earlier rows, so no row is written twice or moved, and
\* in logger.py the rows of a run carry the ticks' times in increasing order.
C18_RowsInSamplingOrder ==
    /\ [][(pc # "boot" /\ csv_file' # csv_file) =>
             /\ pc = "save"
             /\ csv_file'.rows = Append(csv_file.rows, csv_line(clock'))]_vars
    /\ [](script = "logger" =>
             \A i, j \in 2..Len(csv_file.rows) :
                 (i < j /\ csv_file.rows[i] # OldRowLogger) =>
                     /\ csv_file.rows[i] # csv_file.rows[j]
                     /\ C16_TimestampOf(csv_file.rows[i]) < C16_TimestampOf(csv_file.rows[j]))

C18_Witness ==
    /\ script = "logger"
    /\ Len(csv_file.rows) = 3
    /\ csv_file.rows[2][2] = ToString(TicksAfter(boot_ticks, CalibrationTime + ClockStep))
    /\ csv_file.rows[3][2] = ToString(TicksAfter(boot_ticks, CalibrationTime + 3 * ClockStep))
    /\ csv_file.rows[2][6] # csv_file.rows[3][6]
    /\ my_gps = FixFull
    /\ csv_file.rows[2][1] = "??:??:??"
    /\ csv_file.rows[3][1] = "12:05:10"

\* C19: the calibration loop of airspeed.py and logger.py is left only with 5
\* successful sensor reads behind it; read failures never end it.
C19_CalibrationExitsOnlyAfterFiveSuccessfulReads ==
    (script \in {"airspeed", "logger"} /\ pc \notin {"boot", "calibrating"})
        => samples_ok >= calibration_count

\* C20: a plot made for /wind-data or /wind-data-augmented is generated with
\* the max_pixels of the request, and with 2000 when the request has none.
C20_MaxPixelsHonoured ==
    (result # None /\ Val(result).plot # None) =>
        Val(Val(result).plot).max_pixels =
            IF Val(arg).max_pixels = None THEN 2000 ELSE Val(Val(arg).max_pixels)

\* C21: generate_and_upload_wind_plot returns an S3 URL only after a plot file
\* was generated and its upload succeeded; when the generation gives no file
\* or the upload raises, the call raises and returns no URL; however the call
\* ends, the temporary directory and the plot file in it are gone afterwards.
C21_UrlOnlyAfterUploadAndNothingLeftBehind ==
    /\ [](pc = "done" =>
            /\ ~temp_dir /\ ~plot_file
            /\ Val(result).raised <=> Val(result).url = None
            /\ Val(result).url # None => uploaded)
    /\ [][pc = "generate" /\ ~plot_file' => plot_outcome' = "raise"]_vars
    /\ [][pc = "upload" /\ ~uploaded' => plot_outcome' = "raise"]_vars
    /\ [][plot_outcome' = "return" => plot_outcome = "return" \/ (pc = "remove" /\ uploaded)]_vars

C21_Witness ==
    /\ script = "plot"
    /\ pc = "done"
    /\ Val(result).url # None
    /\ ~Val(result).raised
    /\ uploaded
    /\ ~temp_dir
    /\ ~plot_file
    /\ Val(arg).augmented

\* the requests that publish() answered with 200
C22_Accepted == {r \in 1..Len(responses) : responses[r].response.status = 200}

\* C22: a /publish request whose 'data' is not null starts exactly one
\* background publish and is answered 200 'publishing initiated' without any
\* send having happened for it; the response depends on the request body
\* alone and never changes afterwards, whatever the publish does; a publish
\* that failed stays failed (no retry) and its data is never sent; later
\* requests are answered the same way whatever earlier publishes did.
C22_PublishIsFireAndForget ==
    /\ [](script = "relay" =>
           /\ \A r \in 1..Len(responses) :
                /\ responses[r].response = PublishResponse(responses[r].payload)
                /\ (responses[r].payload.json /\ responses[r].payload.data # None)
                     => /\ responses[r].response.status = 200
                        /\ responses[r].response.body = "publishing initiated"
                        /\ Cardinality({i \in 1..Len(threads) : threads[i].request = r}) = 1
                /\ responses[r].response.status # 200
                     => {i \in 1..Len(threads) : threads[i].request = r} = {}
           /\ \A i \in 1..Len(threads) :
                /\ threads[i].request \in C22_Accepted
                /\ threads[i].data = Val(responses[threads[i].request].payload.data)
                /\ Cardinality({k \in 1..Len(channel) : channel[k].request = threads[i].request})
                     = (IF threads[i].state \in {"sent", "done"} THEN 1 ELSE 0))
    /\ [][script = "relay" =>
           /\ Len(responses') >= Len(responses)
           /\ SubSeq(responses', 1, Len(responses)) = responses
           /\ Len(responses') > Len(responses) =>
                /\ channel' = channel
                /\ SubSeq(threads', 1, Len(threads)) = threads
                /\ \A i \in (Len(threads) + 1)..Len(threads') : threads'[i].state = "started"
           /\ \A i \in 1..Len(threads) :
                threads[i].state \in {"failed", "done"} => threads'[i] = threads[i]]_vars

\* the first request was accepted and its publish failed; the second was
\* accepted all the same and its data went out
C22_Witness ==
    /\ script = "relay"
    /\ Len(responses) = 2
    /\ responses[1].response.status = 200
    /\ responses[2].response = [status |-> 200, body |-> "publishing initiated"]
    /\ Len(threads) = 2
    /\ threads[1].state = "failed"
    /\ threads[2].state = "done"
    /\ channel = <<[request |-> 2, message |-> "{\"v\": \"b\"}"]>>

\* C27: the data of an earlier request is sent to the channel before the data
\* of a later request.
C27_ChannelInRequestOrder ==
    \A k, l \in 1..Len(channel) : k < l => channel[k].request < channel[l].request

\* C23: the GPS drain of a tick always terminates, so that the tick goes on
\* to the pressure-sensor read, even while the serial line keeps delivering.
C23_DrainTerminates == (InLoop /\ pc = "gps") ~> (pc # "gps")

\* the GPS columns of a row, and the fix formatted for them
C24_GpsColumns(row) ==
    IF script = "logger" THEN <<row[1], row[3], row[4], row[5], row[9]>>
    ELSE <<row[1], row[2], row[3], row[4], row[7]>>
C24_FixColumns(gps) ==
    <<GpsTime(gps), LatCsv(gps), LonCsv(gps), ElevationCsv(gps), NumSatsCsv(gps)>>

\* C24: the GPS parser state exists from the start of the script and changes
\* only when the drain feeds it a byte: the fix changes only at the byte that
\* ends a sentence the parser was holding, and a partly received sentence stays
\* in the parser through the rest of the tick and into the next.  No other step
\* (a drain that finds nothing buffered, a sensor read or file write, failed
\* or not) touches it, and the row a tick writes carries the formatted fix as
\* it stands, the same values again when no new fix came in.
C24_ParserStateChangesOnlyInDrain ==
    /\ [](InLoop => my_gps \in GpsFixes \cup {NoFix} /\ gps_sentence \in BOOLEAN)
    /\ [][InLoop =>
           /\ (my_gps' # my_gps \/ gps_sentence' # gps_sentence)
                => (pc = "gps" /\ pc' = "gps" /\ gps_rx > 0 /\ gps_rx' = gps_rx - 1)
           /\ my_gps' # my_gps => (gps_sentence /\ ~gps_sentence')
           /\ RowAppended =>
                /\ C24_GpsColumns(RowOfTick) = C24_FixColumns(my_gps)
                /\ my_gps' = my_gps]_vars

\* two rows of this run carry the same fix, the second from a tick whose
\* sensor read failed, while the parser holds a partly received sentence
C24_Witness ==
    /\ script = "logger"
    /\ pc = "gps"
    /\ gps_rx = 0
    /\ pitot_err
    /\ gps_sentence
    /\ my_gps = FixFull
    /\ Len(csv_file.rows) = 3
    /\ csv_file.rows[2] # OldRowLogger
    /\ C24_GpsColumns(csv_file.rows[2]) = C24_FixColumns(FixFull)
    /\ C24_GpsColumns(csv_file.rows[3]) = C24_FixColumns(FixFull)

\* the tick that ends with this step attempted a file append
C25_Attempt == last_save' # last_save

\* C25: a tick attempts a file append exactly when ticks_diff(now, last_save)
\* is at least the save interval (200 ms in logger.py, 1000 ms in main.py);
\* a tick makes at most one attempt, and an attempt is at least the interval
\* after the one before it, by ticks_diff.
C25_AppendAttemptsAreTimeGated ==
    /\ [][(InLoop /\ pc = "save" /\ pc' = "gps") =>
           /\ C25_Attempt <=> ticks_diff(clock', last_save) >= SaveInterval
           /\ C25_Attempt =>
                /\ last_save' = clock'
                /\ ticks_diff(last_save', last_save) >= (IF script = "logger" THEN 200 ELSE 1000)
           /\ csv_file' # csv_file => C25_Attempt
           /\ Len(csv_file'.rows) <= Len(csv_file.rows) + 1]_vars
    /\ [][(InLoop /\ pc # "save") => (last_save' = last_save /\ csv_file' = csv_file)]_vars

\* a row was written one clock step into the loop, the tick one step later was
\* too early and wrote nothing, the tick after that wrote the next row
C25_Witness ==
    /\ script = "logger"
    /\ pc = "gps"
    /\ Len(csv_file.rows) = 3
    /\ csv_file.rows[2][2] = ToString(TicksAfter(boot_ticks, CalibrationTime + ClockStep))
    /\ csv_file.rows[3][2] = ToString(TicksAfter(boot_ticks, CalibrationTime + 3 * ClockStep))
    /\ last_save = clock
    /\ clock = TicksAfter(boot_ticks, CalibrationTime + 3 * ClockStep)

\* the frame with the given raw pressure in its first two bytes
C26_FrameOfRaw(raw) == <<raw \div 256, raw % 256, 0, 0>>

\* C26: in main.py the airspeed of every reading made from a valid 4-byte
\* frame is 0, whatever the raw pressure in 0..65535: the converted pressure is
\* at most 6894.76 Pa, STATIC_PRESSURE_PA is 99724.26 Pa, and the negative
\* difference is clamped to 0.  STATIC_PRESSURE_PA is the same in every reading.
C26_MainAirspeedAlwaysZero ==
    /\ (result # None /\ Val(result).fn = "pitot_try_main" /\ Len(Val(arg).v) = 4) =>
          /\ Val(result).out[1] # None
          /\ Val(Val(result).out[1]) <= 689476
          /\ Val(Val(result).out[1]) < STATIC_PRESSURE_PA
          /\ Val(result).out[2] = Some(0)
    /\ STATIC_PRESSURE_PA = 9972426
    /\ (result # None /\ Val(result).fn = "pitot_try_main"
          /\ Val(arg).v = C26_FrameOfRaw(65535)) =>
          \A raw \in 0..65535 : PitotTryMain(C26_FrameOfRaw(raw))[2] = Some(0)

\* the largest raw pressure a frame can carry
C26_Witness ==
    /\ result # None
    /\ Val(result).fn = "pitot_try_main"
    /\ Val(arg).v = <<255, 255, 0, 0>>
    /\ Val(result).out = <<Some(689476), Some(0)>>

\* C28: every message generate_data returns, after any number of calls, has
\* speedFactor in [0.2, 3.0], humidity in [10, 90], track in [0, 360) and
\* heading in [0, 360), and _step_count is the number of generate_data calls.
C28_MessageFieldsInRange ==
    (script = "generator" /\ message # None) =>
        /\ Val(message).speedFactor \in 20..300
        /\ Val(message).humidity \in 100..900
        /\ Val(message).track \in 0..3599
        /\ Val(message).heading \in 0..3599
        /\ generators[1][1].step_count = calls[1][1]

\* how many of the messages sent on connection c were for flight i of the list
C29_SentFor(c, i) == Cardinality({k \in 1..Len(sent[c]) : sent[c][k] = FlightIds[i]})

C30_HiOnlyWhileConnectedAndMainLoopsOn ==
    /\ [](script = "snap" =>
           /\ connects <= 1
           /\ \A k \in 1..(Len(hi_sent) - 1) : hi_sent[k + 1] - hi_sent[k] >= 2
           /\ hi_sent # <<>> => connects = 1
           /\ main_loop = "terminated" <=> interrupted
           /\ task = "cancelled" => interrupted)
    /\ [][script = "snap" =>
           /\ task \in {"ended", "cancelled"} =>
                (task' = task /\ hi_sent' = hi_sent /\ connects' = connects)
           /\ hi_sent' # hi_sent => (task = "send" /\ Len(hi_sent') = Len(hi_sent) + 1)
           /\ (task' = "ended" /\ ~interrupted') => main_loop' = "looping"
           /\ main_loop' # main_loop => interrupted']_vars

\* three "hi" went out, then a send raised; main is still looping afterwards
C30_Witness ==
    /\ script = "snap"
    /\ task = "ended"
    /\ hi_sent = <<0, 2, 4>>
    /\ seconds = 6
    /\ connects = 1
    /\ main_loop = "looping"
    /\ ~interrupted

====
